---- MODULE Spec2Model ----
(***************************************************************************)
(* Model of the Dero ZAP client of brensch/assistant (derozap/client.go):  *)
(* the session client (Login), the report fetcher (FetchTagReads), and the *)
(* reconciliation against the derozap_reads table (storeNewTagReads).      *)
(*                                                                         *)
(* Go strings are modelled as sequences of tokens, so that trimming,       *)
(* layout matching and date formatting are computed and not assumed.       *)
(***************************************************************************)
EXTENDS Integers, Sequences, FiniteSets, Bags, TLC

\* ------------------------------------------------------------------ bounds
\* longest batch handed to storeNewTagReads
MaxBatch == 2
\* number of storeNewTagReads calls in a behaviour (one clock reading each)
MaxRuns == 2

\* ------------------------------------------------------- strings and dates
Space == " "

\* the calendar days the model's date tokens denote (days of March 2025)
Days == {14, 15}

\* value of a token written in the layout "01/02/2006"; 0 when it is not one
USDay(tok) ==
  CASE tok = "03/14/2025" -> 14
    [] tok = "03/15/2025" -> 15
    [] OTHER -> 0

\* value of a token written in the layout "2006-01-02"; 0 when it is not one
ISODay(tok) ==
  CASE tok = "2025-03-14" -> 14
    [] tok = "2025-03-15" -> 15
    [] OTHER -> 0

\* tokens the layout element "15:04:05" accepts
IsClock24(tok) == tok \in {"10:00:00", "17:30:00"}

\* tokens the layout element "03:04:05" accepts (hours 01..12)
IsClock12(tok) == tok \in {"10:00:00"}

IsMeridiem(tok) == tok \in {"AM", "PM"}

\* time.Time{}: the zero time returned with an error
ZeroTime == [day |-> 0, clock |-> "00:00:00"]

\* time.Parse(layout, s) for the five layouts of parseZapDate, numbered in
\* the order of the formats slice
TimeParse(layout, s) ==
  CASE layout = 1 ->
         IF Len(s) = 1 /\ USDay(s[1]) # 0
         THEN [ok |-> TRUE, t |-> [day |-> USDay(s[1]), clock |-> "00:00:00"]]
         ELSE [ok |-> FALSE, t |-> ZeroTime]
    [] layout = 2 ->
         IF Len(s) = 5 /\ USDay(s[1]) # 0 /\ s[2] = Space /\ IsClock12(s[3])
            /\ s[4] = Space /\ IsMeridiem(s[5])
         THEN [ok |-> TRUE, t |-> [day |-> USDay(s[1]), clock |-> s[3]]]
         ELSE [ok |-> FALSE, t |-> ZeroTime]
    [] layout = 3 ->
         IF Len(s) = 3 /\ USDay(s[1]) # 0 /\ s[2] = Space /\ IsClock24(s[3])
         THEN [ok |-> TRUE, t |-> [day |-> USDay(s[1]), clock |-> s[3]]]
         ELSE [ok |-> FALSE, t |-> ZeroTime]
    [] layout = 4 ->
         IF Len(s) = 1 /\ ISODay(s[1]) # 0
         THEN [ok |-> TRUE, t |-> [day |-> ISODay(s[1]), clock |-> "00:00:00"]]
         ELSE [ok |-> FALSE, t |-> ZeroTime]
    [] layout = 5 ->
         IF Len(s) = 3 /\ ISODay(s[1]) # 0 /\ s[2] = Space /\ IsClock24(s[3])
         THEN [ok |-> TRUE, t |-> [day |-> ISODay(s[1]), clock |-> s[3]]]
         ELSE [ok |-> FALSE, t |-> ZeroTime]
    [] OTHER -> [ok |-> FALSE, t |-> ZeroTime]

\* the formats slice of parseZapDate
formats == <<1, 2, 3, 4, 5>>

RECURSIVE TryFormats(_, _)
TryFormats(i, s) ==
  IF i > Len(formats) THEN [ok |-> FALSE, t |-> ZeroTime]
  ELSE IF TimeParse(formats[i], s).ok THEN TimeParse(formats[i], s)
  ELSE TryFormats(i + 1, s)

\* parseZapDate: the common layout first, then every layout of formats in order
parseZapDate(dateStr) ==
  IF TimeParse(1, dateStr).ok THEN TimeParse(1, dateStr)
  ELSE TryFormats(1, dateStr)

\* variant: zapDate.Format("2006-01-02 15:04:05")
FormatDateWithClock(t) ==
  CASE t.day = 14 -> <<"2025-03-14", " ", t.clock>>
    [] t.day = 15 -> <<"2025-03-15", " ", t.clock>>
    [] OTHER -> <<"0001-01-01", " ", t.clock>>

\* zapDate.Format("2006-01-02"): the calendar day alone, time of day dropped
FormatDate(t) ==
  CASE t.day = 14 -> <<"2025-03-14">>
    [] t.day = 15 -> <<"2025-03-15">>
    [] OTHER -> <<"0001-01-01">>

\* ------------------------------------------------------------ the table
\* derozap_reads is a bag of rows: SQL tables are multisets, and only the
\* PRIMARY KEY constraint keeps two rows of one key out

\* variant: the existence check with "zap_date = ?" left out of the WHERE
DbCountTagOnly(table, zapDate, tagID) ==
  LET hits == {r \in BagToSet(table) : r.tag_id = tagID}
      RECURSIVE Sum(_)
      Sum(S) == IF S = {} THEN 0
                ELSE LET r == CHOOSE x \in S : TRUE
                     IN CopiesIn(r, table) + Sum(S \ {r})
  IN Sum(hits)

\* SELECT COUNT(*) FROM derozap_reads WHERE zap_date = ? AND tag_id = ?
DbCount(table, zapDate, tagID) ==
  LET hits == {r \in BagToSet(table) : r.zap_date = zapDate /\ r.tag_id = tagID}
      RECURSIVE Sum(_)
      Sum(S) == IF S = {} THEN 0
                ELSE LET r == CHOOSE x \in S : TRUE
                     IN CopiesIn(r, table) + Sum(S \ {r})
  IN Sum(hits)

\* variant: the table declared without PRIMARY KEY (zap_date, tag_id)
DbInsertNoPrimaryKey(table, zapDate, tagID, recordedAt) ==
  [err |-> FALSE,
   table |-> table (+) SetToBag({[zap_date |-> zapDate, tag_id |-> tagID,
                                  recorded_at |-> recordedAt]})]

\* variant: INSERT OR REPLACE INTO derozap_reads
DbInsertOrReplace(table, zapDate, tagID, recordedAt) ==
  LET old == {r \in BagToSet(table) : r.zap_date = zapDate /\ r.tag_id = tagID}
      kept == [r \in BagToSet(table) \ old |-> CopiesIn(r, table)]
  IN [err |-> FALSE,
      table |-> kept (+) SetToBag({[zap_date |-> zapDate, tag_id |-> tagID,
                                    recorded_at |-> recordedAt]})]

\* INSERT INTO derozap_reads (zap_date, tag_id, recorded_at) VALUES (?, ?, ?)
\* against the table of createTagReadsTable: a second row of an existing
\* (zap_date, tag_id) is refused with a constraint error
DbInsert(table, zapDate, tagID, recordedAt) ==
  IF \E r \in BagToSet(table) : r.zap_date = zapDate /\ r.tag_id = tagID
  THEN [err |-> TRUE, table |-> table]
  ELSE [err |-> FALSE,
        table |-> table (+) SetToBag({[zap_date |-> zapDate, tag_id |-> tagID,
                                       recorded_at |-> recordedAt]})]

\* ------------------------------------------------------------- TagRead
\* variant: one key for every further cell
FieldKeySame(i) == <<"field_", 0>>

\* key of RawData for cell i of a row: fmt.Sprintf("field_%d", i)
FieldKey(i) == <<"field_", i>>

\* a RawData map without entries
NoFields == [k \in {} |-> <<>>]

\* TagRead{Date, TagID, RawData}
TagRead(date, tagID, rawData) == [Date |-> date, TagID |-> tagID, RawData |-> rawData]

\* the candidates handed to storeNewTagReads: the same day and tag with and
\* without an extra column, the same day in another layout with a time of
\* day, another day, another tag, and a date no layout accepts
Candidates ==
  { TagRead(<<"03/14/2025">>, <<"A">>, NoFields),
    TagRead(<<"03/14/2025">>, <<"A">>, [k \in {FieldKey(2)} |-> <<"gate 1">>]),
    TagRead(<<"2025-03-14", " ", "17:30:00">>, <<"A">>, NoFields),
    TagRead(<<"03/15/2025">>, <<"A">>, NoFields),
    TagRead(<<"03/14/2025">>, <<"B">>, NoFields),
    TagRead(<<"14.03.2025">>, <<"A">>, NoFields) }

RECURSIVE SeqsUpTo(_, _)
SeqsUpTo(S, n) ==
  IF n = 0 THEN {<<>>}
  ELSE SeqsUpTo(S, n - 1) \cup
       {Append(q, x) : q \in {r \in SeqsUpTo(S, n - 1) : Len(r) = n - 1}, x \in S}

Batches == SeqsUpTo(Candidates, MaxBatch)

\* what the database can do to one existence check and insert: answer,
\* fail the query, fail the scan of the count, return no row from the
\* count query, or fail the insert
Faults == {"none", "query", "scan", "norow", "insert"}

\* ----------------------------------------------------- the report page
\* number of pages the first page of the report can declare
MaxPages == 2

IsSpace(tok) == tok \in {" ", "\n", "\t"}

\* strings.TrimSpace on a token sequence
RECURSIVE TrimLeft(_)
TrimLeft(s) == IF s # <<>> /\ IsSpace(Head(s)) THEN TrimLeft(Tail(s)) ELSE s

RECURSIVE TrimRight(_)
TrimRight(s) ==
  IF s # <<>> /\ IsSpace(s[Len(s)]) THEN TrimRight(SubSeq(s, 1, Len(s) - 1)) ELSE s

TrimSpace(s) == TrimRight(TrimLeft(s))

\* html nodes under a cell: a text node with its data, or an element
TextNode(data) == [type |-> "text", data |-> data]
ElementNode(name) == [type |-> "elem", data |-> <<name>>]

\* a child element of a tr with its own children
Cell(tag, nodes) == [tag |-> tag, nodes |-> nodes]
Td(text) == Cell("td", <<TextNode(text)>>)

\* strings.Contains(attr.Val, "reportTable") on the class names of a table
HasReportMarker(class) ==
  \E i \in 1..Len(class) : class[i] \in {"reportTable", "reportTableWide"}

\* findTable: the first table, in document order, whose class has the marker
\* (0 when there is none)
findTable(doc) ==
  LET hits == {i \in 1..Len(doc.tables) : HasReportMarker(doc.tables[i].class)}
  IN IF hits = {} THEN 0 ELSE CHOOSE i \in hits : \A j \in hits : i <= j

\* the trimmed data of the first text node among the children of a cell,
\* the empty string when the cell has no text node of its own
FirstText(cell) ==
  LET hits == {i \in 1..Len(cell.nodes) : cell.nodes[i].type = "text"}
  IN IF hits = {} THEN <<>>
     ELSE TrimSpace(cell.nodes[CHOOSE i \in hits : \A j \in hits : i <= j].data)

IsTd(c) == c.tag = "td"

\* variant: processRow without its test "date != \"\" && tagID != \"\""
RowReadsKeepEmpty(row) ==
  LET cells == SelectSeq(row, IsTd)
  IN IF Len(cells) >= 2
     THEN <<TagRead(FirstText(cells[1]), FirstText(cells[2]),
                    [k \in {FieldKey(i) : i \in 2..(Len(cells) - 1)} |->
                       FirstText(cells[k[2] + 1])])>>
     ELSE <<>>

\* processRow on one tr: the TagReads it appends (none or one)
RowReads(row) ==
  LET cells == SelectSeq(row, IsTd)
  IN IF Len(cells) >= 2
     THEN LET date == FirstText(cells[1])
              tagID == FirstText(cells[2])
          IN IF date # <<>> /\ tagID # <<>>
             THEN <<TagRead(date, tagID,
                            [k \in {FieldKey(i) : i \in 2..(Len(cells) - 1)} |->
                               FirstText(cells[k[2] + 1])])>>
             ELSE <<>>
     ELSE <<>>

RECURSIVE RowsReads(_)
RowsReads(rows) ==
  IF rows = <<>> THEN <<>> ELSE RowReads(Head(rows)) \o RowsReads(Tail(rows))

\* variant: a document without the report table parses to no reads
parseTagReadsSilent(doc) ==
  IF findTable(doc) = 0 THEN [reads |-> <<>>, err |-> "none"]
  ELSE [reads |-> RowsReads(doc.tables[findTable(doc)].rows), err |-> "none"]

\* parseTagReads: the reads of the report table in document order, or the
\* error "report table not found in HTML response"
parseTagReads(doc) ==
  IF findTable(doc) = 0 THEN [reads |-> <<>>, err |-> "notable"]
  ELSE [reads |-> RowsReads(doc.tables[findTable(doc)].rows), err |-> "none"]

\* the matches of page\s+\d+\s+of\s+(\d+) in a body, in the order of the
\* body: each has digits with their value, or digits too long for
\* strconv.Atoi; FindSubmatch takes the first
NoPager == <<>>
PagerOf(n) == [kind |-> "digits", n |-> n]
HugePager == [kind |-> "huge", n |-> 0]

\* extractTotalPages: the total the first match declares when it parses and
\* is positive, 1 otherwise
\* variant: the last "page X of Y" of the body decides
extractTotalPagesLast(doc) ==
  IF doc.pager = NoPager THEN 1
  ELSE LET matches == doc.pager[Len(doc.pager)]
       IN IF matches.kind = "digits" /\ matches.n > 0 THEN matches.n ELSE 1

extractTotalPages(doc) ==
  IF doc.pager = NoPager THEN 1
  ELSE LET matches == Head(doc.pager)
       IN IF matches.kind = "digits" /\ matches.n > 0 THEN matches.n ELSE 1

\* rows and tables of the pages the upstream serves
RowHead == <<Cell("th", <<TextNode(<<"ZAP Date">>)>>), Cell("th", <<TextNode(<<"Tag">>)>>)>>
RowA == <<Td(<<" ", "03/14/2025", "\n">>), Td(<<"A">>)>>
RowB == <<Td(<<"03/15/2025">>), Td(<<"B">>), Td(<<"gate 1", " ">>)>>
RowOne == <<Td(<<"total">>)>>
\* a row whose date cell is white space only
RowNoDate == <<Td(<<" ", "\n">>), Td(<<"A">>)>>
\* a row whose tag cell holds an element and no text of its own
RowNoTag == <<Td(<<"03/15/2025">>), Cell("td", <<ElementNode("b")>>), Td(<<"gate 2">>)>>
\* a row of five cells, the fourth without text, with a th among them
RowWide == <<Td(<<"03/15/2025">>), Cell("th", <<TextNode(<<"#">>)>>),
             Cell("td", <<ElementNode("a"), TextNode(<<"B", " ">>), TextNode(<<"x">>)>>),
             Td(<<"gate 1">>), Cell("td", <<ElementNode("img")>>), Td(<<"\t", "in">>)>>

TabAB == [class |-> <<"reportTable">>, rows |-> <<RowHead, RowA, RowB>>]
TabBA == [class |-> <<"list", "reportTableWide">>, rows |-> <<RowB, RowOne, RowA>>]
TabEmpty == [class |-> <<"reportTable">>, rows |-> <<RowHead>>]
TabNav == [class |-> <<"nav">>, rows |-> <<RowA>>]
TabWide == [class |-> <<"reportTable">>, rows |-> <<RowNoDate, RowWide, RowNoTag, RowOne>>]

PageBodies ==
  { [tables |-> <<TabNav, TabAB>>, pager |-> NoPager],
    [tables |-> <<TabAB>>, pager |-> <<PagerOf(MaxPages)>>],
    [tables |-> <<TabBA>>, pager |-> <<PagerOf(2)>>],
    [tables |-> <<TabEmpty>>, pager |-> <<PagerOf(0), PagerOf(2)>>],
    [tables |-> <<TabNav>>, pager |-> <<PagerOf(2), PagerOf(1)>>],
    [tables |-> <<TabBA>>, pager |-> <<HugePager>>],
    [tables |-> <<TabWide>>, pager |-> NoPager] }

\* the report as the upstream serves it: one body per page number
Sites == [1..MaxPages -> PageBodies]

\* what one GET of a report page can come to: a body, an error of
\* httpClient.Do, or an error of io.ReadAll
PageOutcomes == {"ok", "transport", "read"}

\* variant: allTagReads = append(tagReads, allTagReads...)
AccumulatePrepend(all, tagReads) == tagReads \o all

\* allTagReads = append(allTagReads, tagReads...)
Accumulate(all, tagReads) == all \o tagReads

\* variant: the error returns hand back what was accumulated so far
FetchFailPartial(all, err) == [reads |-> all, err |-> err]

\* "return nil, err" of FetchTagReads
FetchFail(all, err) == [reads |-> <<>>, err |-> err]

\* variant: the page count is taken from every page
NextTotalPagesEveryPage(cur, total, doc) == extractTotalPages(doc)

\* totalPages after a page: taken from the body of the first page only
NextTotalPages(cur, total, doc) ==
  IF cur = 1 THEN extractTotalPages(doc) ELSE total

\* ------------------------------------------------------------- the login
StatusOK == 200

Markers == {"Welcome,", "Login failed", "Invalid login"}
UrlParts == {"s=commuter", "s=login"}

\* what the POST of Login can come to: an error of httpClient.Do, an error
\* of io.ReadAll, or a response with the markers its body contains, its
\* status and the substrings its final URL contains
Response(body, status, url) == [kind |-> "resp", body |-> body, status |-> status, url |-> url]
TransportError == [kind |-> "transport", body |-> {}, status |-> 0, url |-> {}]
ReadError == [kind |-> "read", body |-> {}, status |-> 0, url |-> {}]

Responses ==
  {TransportError, ReadError} \cup
  {Response(b, st, u) : b \in SUBSET Markers, st \in {StatusOK, 500}, u \in SUBSET UrlParts}

\* the responses the fetcher's logins are run against
FetchResponses ==
  { TransportError,
    Response({"Welcome,"}, StatusOK, {"s=commuter"}),
    Response({"Login failed"}, StatusOK, {"s=login"}),
    Response({}, 500, {"s=login"}) }

LoginResult(err, set) == [err |-> err, set |-> set]

\* variant: the failure markers tested before the welcome marker
ClassifyLoginFailureFirst(r) ==
  IF r.kind = "transport" THEN LoginResult("transport", FALSE)
  ELSE IF r.kind = "read" THEN LoginResult("read", FALSE)
  ELSE IF "Login failed" \in r.body \/ "Invalid login" \in r.body
       THEN LoginResult("invalid", FALSE)
  ELSE IF "Welcome," \in r.body THEN LoginResult("none", TRUE)
  ELSE IF r.status = StatusOK /\ ("s=commuter" \in r.url \/ "s=login" \notin r.url)
       THEN LoginResult("none", TRUE)
  ELSE LoginResult("uncertain", FALSE)

\* variant: an unrecognised response falls through to success
ClassifyLoginOptimistic(r) ==
  IF r.kind = "transport" THEN LoginResult("transport", FALSE)
  ELSE IF r.kind = "read" THEN LoginResult("read", FALSE)
  ELSE IF "Welcome," \in r.body THEN LoginResult("none", TRUE)
  ELSE IF "Login failed" \in r.body \/ "Invalid login" \in r.body
       THEN LoginResult("invalid", FALSE)
  ELSE LoginResult("none", TRUE)

\* variant: c.loggedIn is set before the failure markers are looked for
ClassifyLoginSetsEarly(r) ==
  IF r.kind = "transport" THEN LoginResult("transport", FALSE)
  ELSE IF r.kind = "read" THEN LoginResult("read", FALSE)
  ELSE IF "Welcome," \in r.body THEN LoginResult("none", TRUE)
  ELSE IF "Login failed" \in r.body \/ "Invalid login" \in r.body
       THEN LoginResult("invalid", TRUE)
  ELSE IF r.status = StatusOK /\ ("s=commuter" \in r.url \/ "s=login" \notin r.url)
       THEN LoginResult("none", TRUE)
  ELSE LoginResult("uncertain", FALSE)

\* Login from the response on: the error it returns ("none" for nil) and
\* whether it sets c.loggedIn
ClassifyLogin(r) ==
  IF r.kind = "transport" THEN LoginResult("transport", FALSE)
  ELSE IF r.kind = "read" THEN LoginResult("read", FALSE)
  ELSE IF "Welcome," \in r.body THEN LoginResult("none", TRUE)
  ELSE IF "Login failed" \in r.body \/ "Invalid login" \in r.body
       THEN LoginResult("invalid", FALSE)
  ELSE IF r.status = StatusOK /\ ("s=commuter" \in r.url \/ "s=login" \notin r.url)
       THEN LoginResult("none", TRUE)
  ELSE LoginResult("uncertain", FALSE)

\* variant: Login without its "if c.loggedIn { return nil }"
LoginAlwaysPosts(flag) == FALSE

\* the test "if c.loggedIn" at the head of Login
AlreadyLoggedIn(flag) == flag

\* the goroutine of Start and the handler of the retreive_zaps command: both
\* use the one Client
Procs == {"ticker", "command"}

\* the goroutines the cron scheduler starts for the derozap_check entry: one
\* per firing, a new one whether or not an earlier one has returned
Jobs == {"job1", "job2"}

Threads == Procs \cup Jobs

\* the report page the upstream serves for a URL: the one "&pg=" names, the
\* first when the URL has no such parameter
ServedPage(url) ==
  IF Len(url) >= 2 /\ url[Len(url) - 1] = "&pg=" THEN url[Len(url)] ELSE 1

POST == [m |-> "POST", pg |-> 0, url |-> <<"loginURL">>]
GET(url) == [m |-> "GET", pg |-> ServedPage(url), url |-> url]

NoRet == [reads |-> <<>>, err |-> "none"]
NoLogin == [resp |-> TransportError, err |-> "none", set |-> FALSE, short |-> FALSE]

\* --------------------------------------------------------------- state
VARIABLES
  storage,          \* the rows of derozap_reads
  clock,            \* time.Now(), counted in calls of storeNewTagReads
  spc,              \* position of the poller in storeNewTagReads
  batch,            \* tagReads, the argument of the call
  idx,              \* number of elements of tagReads the loop has consumed
  now,              \* the timestamp storeNewTagReads reads once per call
  newRecordsCount,  \* the counter of the call, then its return value
  storage0,         \* history: the table when the call began
  runErr,           \* history: a storage error was logged during the call
  prevErr,          \* history: a storage error was logged during the call before
  repeat,           \* history: the call got the same batch as the call before
  seen,             \* history: watched (Date, TagID) pairs the loop has processed
  seenOk,           \* history: watched pairs processed without a storage error
  lastStep,         \* history: what the last loop iteration did
  storeErr,         \* the error storeNewTagReads returns ("none" for nil)
  newlyInserted,    \* the candidates the running call has inserted, as returned
  loggedIn,         \* c.loggedIn
  site,             \* the report the upstream serves, by page number
  pc,               \* per caller: where it stands in Login / FetchTagReads
  call,             \* per caller: the method it called
  currentPage,      \* per caller: currentPage of FetchTagReads
  totalPages,       \* per caller: totalPages of FetchTagReads
  allTagReads,      \* per caller: allTagReads of FetchTagReads
  ret,              \* per caller: what the call returned
  loginOut,         \* per caller: what its Login got and returned
  requests,         \* per caller: the requests the call has issued
  build,            \* the poller main wires: Start's ticker or the cron entry
  embeds,           \* per poller: the embeds its tick has handed to Discord
  tickStorage,      \* history, per poller: the table when its tick began
  lastFail,         \* history: what the last finished tick failed on
  listed,           \* the detail lines of the description a tick has built
  race,             \* two calls of storeNewTagReads running side by side
  newRecords,       \* per poller: what its storeNewTagReads call returned
  req               \* per caller: the DerozapRequest of the command

storeVars == <<storage, clock, spc, batch, idx, now, newRecordsCount,
               storage0, runErr, prevErr, repeat, seen, seenOk, lastStep, storeErr,
                 newlyInserted>>

clientVars == <<loggedIn, site, pc, call, currentPage, totalPages, allTagReads,
                ret, loginOut, requests>>

pollVars == <<build, embeds, tickStorage, lastFail, newRecords, req, listed, race>>

vars == <<storeVars, clientVars, pollVars>>

\* ---------------------------------------------------- storeNewTagReads
\* variant: newRecordsCount++ moved out of the "if count == 0" block, so
\* every candidate with a parseable date that passes the check is counted
StoreOneCountsOutsideIf(table, cnt, tr, ts, fault) ==
  LET z == parseZapDate(tr.Date)
      formattedDate == FormatDate(z.t)
      same == [table |-> table, count |-> cnt, err |-> "none"]
  IN IF ~z.ok THEN [same EXCEPT !.err = "parse"]
     ELSE IF fault = "query" THEN [same EXCEPT !.err = "query"]
     ELSE IF fault = "scan" THEN [same EXCEPT !.err = "scan"]
     ELSE LET count == IF fault = "norow" THEN 0
                       ELSE DbCount(table, formattedDate, tr.TagID)
          IN IF count = 0
             THEN IF fault = "insert" THEN [same EXCEPT !.err = "insert"]
                  ELSE LET r == DbInsert(table, formattedDate, tr.TagID, ts)
                       IN IF r.err THEN [same EXCEPT !.err = "insert"]
                          ELSE [table |-> r.table, count |-> cnt + 1, err |-> "none"]
             ELSE [same EXCEPT !.count = cnt + 1]

\* variant: the "continue" after a failed insert is missing, so a candidate
\* whose insert was refused is counted as new all the same
StoreOneNoContinueOnInsertError(table, cnt, tr, ts, fault) ==
  LET z == parseZapDate(tr.Date)
      formattedDate == FormatDate(z.t)
      same == [table |-> table, count |-> cnt, err |-> "none"]
  IN IF ~z.ok THEN [same EXCEPT !.err = "parse"]
     ELSE IF fault = "query" THEN [same EXCEPT !.err = "query"]
     ELSE IF fault = "scan" THEN [same EXCEPT !.err = "scan"]
     ELSE LET count == IF fault = "norow" THEN 0
                       ELSE DbCount(table, formattedDate, tr.TagID)
          IN IF count = 0
             THEN IF fault = "insert"
                  THEN [table |-> table, count |-> cnt + 1, err |-> "insert"]
                  ELSE LET r == DbInsert(table, formattedDate, tr.TagID, ts)
                       IN IF r.err
                          THEN [table |-> table, count |-> cnt + 1, err |-> "insert"]
                          ELSE [table |-> r.table, count |-> cnt + 1, err |-> "none"]
             ELSE same

\* one iteration of the loop of storeNewTagReads over candidate tr: the new
\* table, the new counter and the error the iteration logged ("none" when it
\* logged nothing)
StoreOne(table, cnt, tr, ts, fault) ==
  LET z == parseZapDate(tr.Date)
      formattedDate == FormatDate(z.t)
      same == [table |-> table, count |-> cnt, err |-> "none"]
  IN IF ~z.ok THEN [same EXCEPT !.err = "parse"]
     ELSE IF fault = "query" THEN [same EXCEPT !.err = "query"]
     ELSE IF fault = "scan" THEN [same EXCEPT !.err = "scan"]
     ELSE \* "var count int" stays 0 when rows.Next() is false
          LET count == IF fault = "norow" THEN 0
                       ELSE DbCount(table, formattedDate, tr.TagID)
          IN IF count = 0
             THEN IF fault = "insert" THEN [same EXCEPT !.err = "insert"]
                  ELSE LET r == DbInsert(table, formattedDate, tr.TagID, ts)
                       IN IF r.err THEN [same EXCEPT !.err = "insert"]
                          ELSE [table |-> r.table, count |-> cnt + 1, err |-> "none"]
             ELSE same

StorageErrors == {"query", "scan", "insert"}

Pair(tr) == <<tr.Date, tr.TagID>>

\* the pairs the model's candidates carry with two different RawData maps
Watched ==
  {p \in {Pair(c) : c \in Candidates} :
     \E a, b \in Candidates : Pair(a) = p /\ Pair(b) = p /\ a.RawData # b.RawData}

NoStep == [dup |-> FALSE, dupOk |-> FALSE, changed |-> FALSE, counted |-> FALSE,
           failed |-> FALSE]

\* the returned set of newly inserted reads: the original TagRead joins it
\* where the count of new records is incremented
IncludeNew(list, tr, counted) == IF counted THEN Append(list, tr) ELSE list

\* variant: the error of a candidate ends the loop and is returned
AbortOnRecordError(err) ==
  IF err # "none" THEN [spc |-> "done", ret |-> err] ELSE [spc |-> "loop", ret |-> "none"]

\* the end of an iteration: after "continue" as after the last statement of
\* the body the loop goes on, and nothing is kept for the return
AfterRecord(err) == [spc |-> "loop", ret |-> "none"]

\* storeNewTagReads(b), entry: the length check, time.Now() and the counter
StoreEnter(b) ==
  /\ spc \in {"idle", "done"}
  /\ clock < MaxRuns
  /\ batch' = b
  /\ repeat' = (spc = "done" /\ b = batch)
  /\ spc' = IF Len(b) = 0 THEN "done" ELSE "loop"
  /\ clock' = clock + 1
  /\ now' = clock + 1
  /\ idx' = 0
  /\ newRecordsCount' = 0
  /\ storage0' = storage
  /\ prevErr' = runErr
  /\ runErr' = FALSE
  /\ lastStep' = NoStep
  /\ storeErr' = "none"
  /\ newlyInserted' = <<>>
  /\ UNCHANGED <<storage, seen, seenOk>>

\* a call of storeNewTagReads with any batch of candidates
StoreBegin ==
  /\ \E b \in Batches : StoreEnter(b)
  /\ UNCHANGED <<clientVars, pollVars>>

\* one iteration of "for _, tr := range tagReads"
StoreStep ==
  /\ spc = "loop"
  /\ idx < Len(batch)
  /\ \E fault \in Faults :
       LET tr == batch[idx + 1]
           r == StoreOne(storage, newRecordsCount, tr, now, fault)
       IN /\ storage' = r.table
          /\ newRecordsCount' = r.count
          /\ runErr' = (runErr \/ r.err \in StorageErrors)
          /\ seen' = seen \cup ({Pair(tr)} \cap Watched)
          /\ seenOk' = IF r.err \in StorageErrors THEN seenOk
                       ELSE seenOk \cup ({Pair(tr)} \cap Watched)
          /\ lastStep' = [dup |-> Pair(tr) \in seen,
                          dupOk |-> Pair(tr) \in seenOk,
                          changed |-> r.table # storage,
                          counted |-> r.count # newRecordsCount,
                          failed |-> r.err # "none"]
          /\ spc' = AfterRecord(r.err).spc
          /\ storeErr' = AfterRecord(r.err).ret
          /\ newlyInserted' = IncludeNew(newlyInserted, tr, r.count # newRecordsCount)
  /\ idx' = idx + 1
  /\ UNCHANGED <<clock, batch, now, storage0, prevErr, repeat>>
  /\ UNCHANGED <<clientVars, pollVars>>

\* "return newRecordsCount, nil" after the loop
StoreReturn ==
  /\ spc = "loop"
  /\ idx = Len(batch)
  /\ spc' = "done"
  /\ UNCHANGED <<storage, clock, batch, idx, now, newRecordsCount, storage0,
                 runErr, prevErr, repeat, seen, seenOk, lastStep, storeErr,
                 newlyInserted>>
  /\ UNCHANGED <<clientVars, pollVars>>

StoreInit ==
  /\ storage = EmptyBag
  /\ clock = 0
  /\ spc = "idle"
  /\ batch = <<>>
  /\ idx = 0
  /\ now = 0
  /\ newRecordsCount = 0
  /\ storage0 = EmptyBag
  /\ runErr = FALSE
  /\ prevErr = FALSE
  /\ repeat = FALSE
  /\ seen = {}
  /\ seenOk = {}
  /\ lastStep = NoStep
  /\ storeErr = "none"
  /\ newlyInserted = <<>>

\* ------------------------------------------------------ the command
\* DerozapRequest{Start, End}; the empty string is an option left out
DerozapRequest(start, end) == [Start |-> start, End |-> end]
NoRequest == DerozapRequest(<<>>, <<>>)

\* value of a token written in the layout "2006/01/02"; 0 when it is not one
SlashDay(tok) ==
  CASE tok = "2025/03/14" -> 14
    [] tok = "2025/03/15" -> 15
    [] OTHER -> 0

\* t.Format("01/02/2006") of a day
USFormat(day) ==
  CASE day = 14 -> <<"03/14/2025">>
    [] day = 15 -> <<"03/15/2025">>
    [] OTHER -> <<"01/01/0001">>

\* convertDateFormat: "yyyy/mm/dd" to "MM/DD/YYYY", or the error of time.Parse
convertDateFormat(dateStr) ==
  IF Len(dateStr) = 1 /\ SlashDay(dateStr[1]) # 0
  THEN [ok |-> TRUE, s |-> USFormat(SlashDay(dateStr[1]))]
  ELSE [ok |-> FALSE, s |-> <<>>]

\* the option WithDateRange(start, end)
WithDateRange(start, end) == [start |-> start, end |-> end]

\* defaultReportParams, as far as options change it
defaultReportParams == WithDateRange(<<"defaultStartDate">>, <<"defaultEndDate">>)

\* "for _, option := range options { option(params) }"
RECURSIVE ApplyOptions(_, _)
ApplyOptions(params, options) ==
  IF options = <<>> THEN params ELSE ApplyOptions(Head(options), Tail(options))

\* buildReportURL: the URL of the report, with ds= and de= of the parameters
buildReportURL(params) == <<"reportURL", "&ds=">> \o params.start \o <<"&de=">> \o params.end

\* variant: the page parameter is set on every request
pageURLAlwaysPg(reportURL, cur) == reportURL \o <<"&pg=", cur>>

\* pageURL: the URL of the report, with "&pg=%d" from the second page on
pageURL(reportURL, cur) ==
  IF cur > 1 THEN reportURL \o <<"&pg=", cur>> ELSE reportURL

\* the requests the command is run with: each option left out, well formed,
\* or in a layout convertDateFormat refuses
Requests ==
  {DerozapRequest(a, b) : a, b \in {<<>>, <<"2025/03/14">>, <<"14.03.2025">>}}

\* variant: handleDerozapCommand without its test that both dates are there
PrepareOptionsUnpaired(r) ==
  IF r.Start # <<>> \/ r.End # <<>>
  THEN IF ~convertDateFormat(r.Start).ok THEN [err |-> "start", options |-> <<>>]
       ELSE IF ~convertDateFormat(r.End).ok THEN [err |-> "end", options |-> <<>>]
       ELSE [err |-> "none",
             options |-> <<WithDateRange(convertDateFormat(r.Start).s,
                                         convertDateFormat(r.End).s)>>]
  ELSE [err |-> "none", options |-> <<>>]

\* handleDerozapCommand up to its call of FetchTagReads: the error it returns
\* ("usage" for "both start and end dates must be provided if one is
\* specified", "start" and "end" for a date in a wrong format), or the options
PrepareOptions(r) ==
  IF r.Start # <<>> \/ r.End # <<>>
  THEN IF r.Start = <<>> \/ r.End = <<>> THEN [err |-> "usage", options |-> <<>>]
       ELSE IF ~convertDateFormat(r.Start).ok THEN [err |-> "start", options |-> <<>>]
       ELSE IF ~convertDateFormat(r.End).ok THEN [err |-> "end", options |-> <<>>]
       ELSE [err |-> "none",
             options |-> <<WithDateRange(convertDateFormat(r.Start).s,
                                         convertDateFormat(r.End).s)>>]
  ELSE [err |-> "none", options |-> <<>>]

\* ------------- two calls of storeNewTagReads, statement by statement
RaceRuns == {"run1", "run2"}

\* a call that has not begun; absent: the last existence check counted no
\* row; refused: after such a check the insert met the primary key
NoRun == [phase |-> "idle", batch |-> <<>>, idx |-> 0, ts |-> 0, count |-> 0,
          date |-> <<>>, keys |-> {}, absent |-> FALSE, refused |-> FALSE]

\* the candidates of the two calls: one key in two layouts, and another key
RaceCandidates ==
  {c \in Candidates : c.RawData = NoFields /\ parseZapDate(c.Date).ok
                       /\ FormatDate(parseZapDate(c.Date).t) = <<"2025-03-14">>}

RaceBatches == SeqsUpTo(RaceCandidates, MaxBatch)

\* the end of an iteration of a call: the next candidate, or the return
NextCandidate(run) ==
  [run EXCEPT !.idx = @ + 1, !.date = <<>>, !.absent = FALSE,
              !.phase = IF run.idx + 1 = Len(run.batch) THEN "done" ELSE "check"]

\* a goroutine calls storeNewTagReads: the length check and time.Now()
ReconcileBegin(r) ==
  /\ race[r].phase = "idle"
  /\ \E b \in RaceBatches :
       race' = [race EXCEPT ![r] = [NoRun EXCEPT !.batch = b, !.ts = clock + 1,
                                     !.phase = IF Len(b) = 0 THEN "done" ELSE "check"]]
  /\ clock' = clock + 1
  /\ UNCHANGED storage

\* an iteration up to "if count == 0": the date, the existence check and
\* its scan
ReconcileCheck(r) ==
  /\ race[r].phase = "check"
  /\ \E fault \in Faults \ {"insert"} :
       LET run == race[r]
           tr == run.batch[run.idx + 1]
           z == parseZapDate(tr.Date)
           formattedDate == FormatDate(z.t)
           count == IF fault = "norow" THEN 0 ELSE DbCount(storage, formattedDate, tr.TagID)
       IN race' = [race EXCEPT ![r] =
                     IF ~z.ok \/ fault \in {"query", "scan"} \/ count # 0
                     THEN NextCandidate(run)
                     ELSE [run EXCEPT !.phase = "insert", !.date = formattedDate,
                                      !.absent = (fault = "none")]]
  /\ UNCHANGED <<storage, clock>>

\* the rest of the iteration when count was 0: the insert and the counter
ReconcileInsert(r) ==
  /\ race[r].phase = "insert"
  /\ \E fault \in {"none", "insert"} :
       LET run == race[r]
           tr == run.batch[run.idx + 1]
           ins == DbInsert(storage, run.date, tr.TagID, run.ts)
       IN IF fault = "insert" THEN /\ race' = [race EXCEPT ![r] = NextCandidate(run)]
                                   /\ UNCHANGED storage
          ELSE IF ins.err
          THEN /\ race' = [race EXCEPT ![r] = NextCandidate([run EXCEPT !.refused = run.absent])]
               /\ UNCHANGED storage
          ELSE /\ race' = [race EXCEPT ![r] =
                             NextCandidate([run EXCEPT !.count = @ + 1,
                                                       !.keys = @ \cup {<<run.date, tr.TagID>>}])]
               /\ storage' = ins.table
  /\ UNCHANGED clock

\* the records a description lists, one line each, and the number its last
\* line "... and %d more" gives (0 when it has no such line)
NoDetails == [lines |-> <<>>, more |-> 0]

\* a line of a description: it carries the date and the tag of a read
DetailLine(tr) == [Date |-> tr.Date, TagID |-> tr.TagID]

maxItems == 5

\* variant: Start without its limit
StartDetailsAll(tagReads) ==
  [lines |-> [i \in 1..Len(tagReads) |-> DetailLine(tagReads[i])], more |-> 0]

\* Start: "- Tag %s at %s" for the first maxItems of tagReads
StartDetails(tagReads) ==
  LET n == IF Len(tagReads) < maxItems THEN Len(tagReads) ELSE maxItems
  IN [lines |-> [i \in 1..n |-> DetailLine(tagReads[i])], more |-> 0]

maxToShow == 5

\* executeZapCheck: nothing when no record is new, else a line for each of
\* the first maxToShow of newRecords, and "... and %d more" for the rest
ZapCheckDetails(newRecs) ==
  IF Len(newRecs) = 0 THEN NoDetails
  ELSE LET n == IF Len(newRecs) < maxToShow THEN Len(newRecs) ELSE maxToShow
       IN [lines |-> [i \in 1..n |-> DetailLine(newRecs[i])],
           more |-> IF Len(newRecs) > n THEN Len(newRecs) - n ELSE 0]

\* before any tick: no embed sent, no tick failed, no command running
PollInit ==
  /\ embeds = [p \in Threads |-> <<>>]
  /\ tickStorage = [p \in Threads |-> EmptyBag]
  /\ lastFail = "none"
  /\ newRecords = [p \in Threads |-> 0]
  /\ req = [p \in Threads |-> NoRequest]
  /\ listed = [p \in Threads |-> NoDetails]
  /\ race = [r \in RaceRuns |-> NoRun]

\* ------------------------------------------------ Login, FetchTagReads
\* the Client as NewClient leaves it
ClientInit ==
  /\ loggedIn = FALSE
  /\ pc = [p \in Threads |-> "idle"]
  /\ call = [p \in Threads |-> "none"]
  /\ currentPage = [p \in Threads |-> 1]
  /\ totalPages = [p \in Threads |-> 1]
  /\ allTagReads = [p \in Threads |-> <<>>]
  /\ ret = [p \in Threads |-> NoRet]
  /\ loginOut = [p \in Threads |-> NoLogin]
  /\ requests = [p \in Threads |-> <<>>]

\* a caller calls c.Login() itself
LoginCall(p) ==
  /\ pc[p] = "idle"
  /\ pc' = [pc EXCEPT ![p] = "login"]
  /\ call' = [call EXCEPT ![p] = "Login"]
  /\ requests' = [requests EXCEPT ![p] = <<>>]
  /\ UNCHANGED <<loggedIn, site, currentPage, totalPages, allTagReads, ret, loginOut>>
  /\ UNCHANGED <<storeVars, pollVars>>

\* FetchTagReads, entry: "if !c.loggedIn" decides whether Login is called
FetchEnter(p) ==
  /\ pc[p] = "idle"
  /\ call' = [call EXCEPT ![p] = "FetchTagReads"]
  /\ requests' = [requests EXCEPT ![p] = <<>>]
  /\ pc' = [pc EXCEPT ![p] = IF loggedIn THEN "page" ELSE "login"]
  /\ UNCHANGED <<loggedIn, site, currentPage, totalPages, allTagReads, ret, loginOut>>

\* a caller calls c.FetchTagReads() itself
FetchBegin(p) ==
  /\ FetchEnter(p)
  /\ UNCHANGED <<storeVars, pollVars>>

\* the retreive_zaps command arrives: handleDerozapCommand(r) returns an
\* error for the request, or calls c.FetchTagReads(options...)
CommandCall(p) ==
  /\ p = "command"
  /\ \E r \in Requests :
       /\ req' = [req EXCEPT ![p] = r]
       /\ IF PrepareOptions(r).err # "none"
          THEN /\ pc[p] = "idle"
               /\ pc' = [pc EXCEPT ![p] = "done"]
               /\ call' = [call EXCEPT ![p] = "handleDerozapCommand"]
               /\ ret' = [ret EXCEPT ![p] = [reads |-> <<>>, err |-> PrepareOptions(r).err]]
               /\ requests' = [requests EXCEPT ![p] = <<>>]
               /\ UNCHANGED <<loggedIn, site, currentPage, totalPages, allTagReads,
                              loginOut>>
          ELSE FetchEnter(p)
  /\ UNCHANGED <<storeVars, build, embeds, tickStorage, lastFail, newRecords, listed, race>>

\* Login, entry: return nil when already logged in, else send the POST
LoginEntry(p) ==
  /\ pc[p] = "login"
  /\ IF AlreadyLoggedIn(loggedIn)
     THEN /\ pc' = [pc EXCEPT ![p] = "loginret"]
          /\ loginOut' = [loginOut EXCEPT ![p] = [NoLogin EXCEPT !.short = loggedIn]]
          /\ UNCHANGED requests
     ELSE /\ pc' = [pc EXCEPT ![p] = "post"]
          /\ loginOut' = [loginOut EXCEPT ![p] = [NoLogin EXCEPT !.short = loggedIn]]
          /\ requests' = [requests EXCEPT ![p] = Append(@, POST)]
  /\ UNCHANGED <<loggedIn, site, call, currentPage, totalPages, allTagReads, ret>>
  /\ UNCHANGED <<storeVars, pollVars>>

\* Login, from the answer to the POST to its return
LoginRespond(p, answers) ==
  /\ pc[p] = "post"
  /\ \E r \in answers :
       /\ loginOut' = [loginOut EXCEPT ![p] =
                         [resp |-> r, err |-> ClassifyLogin(r).err,
                          set |-> ClassifyLogin(r).set, short |-> @.short]]
       /\ loggedIn' = IF ClassifyLogin(r).set THEN TRUE ELSE loggedIn
  /\ pc' = [pc EXCEPT ![p] = "loginret"]
  /\ UNCHANGED <<site, call, currentPage, totalPages, allTagReads, ret, requests>>
  /\ UNCHANGED <<storeVars, pollVars>>

\* the caller of c.Login() has its error
LoginDone(p) ==
  /\ pc[p] = "loginret"
  /\ call[p] = "Login"
  /\ ret' = [ret EXCEPT ![p] = [reads |-> <<>>, err |-> loginOut[p].err]]
  /\ pc' = [pc EXCEPT ![p] = "done"]
  /\ UNCHANGED <<loggedIn, site, call, currentPage, totalPages, allTagReads,
                 loginOut, requests>>
  /\ UNCHANGED <<storeVars, pollVars>>

\* variant: FetchTagReads without its "if err != nil" after c.Login()
LoginErrorIgnored(err) == FALSE

\* the test "if err != nil" on the result of c.Login() in FetchTagReads
LoginFailed(err) == err # "none"

\* FetchTagReads after c.Login(): return its error, or set up the page loop
FetchAfterLogin(p) ==
  /\ pc[p] = "loginret"
  /\ call[p] = "FetchTagReads"
  /\ IF LoginFailed(loginOut[p].err)
     THEN /\ ret' = [ret EXCEPT ![p] = [reads |-> <<>>, err |-> loginOut[p].err]]
          /\ pc' = [pc EXCEPT ![p] = "done"]
     ELSE /\ pc' = [pc EXCEPT ![p] = "page"]
          /\ UNCHANGED ret
  /\ UNCHANGED <<loggedIn, site, call, currentPage, totalPages, allTagReads,
                 loginOut, requests>>
  /\ UNCHANGED <<storeVars, pollVars>>

\* one iteration of "for currentPage <= totalPages": request, read, parse,
\* accumulate, and the page count after the first page
FetchPage(p) ==
  /\ pc[p] = "page"
  /\ currentPage[p] <= totalPages[p]
  /\ LET params == ApplyOptions(defaultReportParams, PrepareOptions(req[p]).options)
         url == pageURL(buildReportURL(params), currentPage[p])
         body == site[GET(url).pg]
         parsed == parseTagReads(body)
     IN /\ requests' = [requests EXCEPT ![p] = Append(@, GET(url))]
        /\ \/ \E o \in PageOutcomes \ {"ok"} :
                /\ ret' = [ret EXCEPT ![p] = FetchFail(allTagReads[p], o)]
                /\ pc' = [pc EXCEPT ![p] = "done"]
                /\ UNCHANGED <<currentPage, totalPages, allTagReads>>
           \/ /\ "ok" \in PageOutcomes
              /\ IF parsed.err # "none"
                 THEN /\ ret' = [ret EXCEPT ![p] = FetchFail(allTagReads[p], parsed.err)]
                      /\ pc' = [pc EXCEPT ![p] = "done"]
                      /\ UNCHANGED <<currentPage, totalPages, allTagReads>>
                 ELSE /\ allTagReads' = [allTagReads EXCEPT ![p] =
                                           Accumulate(@, parsed.reads)]
                      /\ totalPages' = [totalPages EXCEPT ![p] =
                                          NextTotalPages(currentPage[p], @, body)]
                      /\ currentPage' = [currentPage EXCEPT ![p] = @ + 1]
                      /\ UNCHANGED <<ret, pc>>
  /\ UNCHANGED <<loggedIn, site, call, loginOut>>
  /\ UNCHANGED <<storeVars, pollVars>>

\* "return allTagReads, nil" once currentPage has passed totalPages
FetchReturn(p) ==
  /\ pc[p] = "page"
  /\ currentPage[p] > totalPages[p]
  /\ ret' = [ret EXCEPT ![p] = [reads |-> allTagReads[p], err |-> "none"]]
  /\ pc' = [pc EXCEPT ![p] = "done"]
  /\ UNCHANGED <<loggedIn, site, call, currentPage, totalPages, allTagReads,
                 loginOut, requests>>
  /\ UNCHANGED <<storeVars, pollVars>>

\* the caller takes the result; the locals of the call are gone
Finish(p) ==
  /\ pc[p] = "done"
  /\ pc' = [pc EXCEPT ![p] = "idle"]
  /\ call' = [call EXCEPT ![p] = "none"]
  /\ currentPage' = [currentPage EXCEPT ![p] = 1]
  /\ totalPages' = [totalPages EXCEPT ![p] = 1]
  /\ allTagReads' = [allTagReads EXCEPT ![p] = <<>>]
  /\ ret' = [ret EXCEPT ![p] = NoRet]
  /\ loginOut' = [loginOut EXCEPT ![p] = NoLogin]
  /\ requests' = [requests EXCEPT ![p] = <<>>]
  /\ req' = [req EXCEPT ![p] = NoRequest]
  /\ UNCHANGED <<loggedIn, site>>
  /\ UNCHANGED <<storeVars, build, embeds, tickStorage, lastFail, newRecords, listed, race>>

\* ------------------------------------------------------------ the pollers
\* the two mains: one calls deroClient.Start(bot), the other registers
\* DiscordScheduleZapCheck with the schedule manager
Builds == {"start", "cron"}

\* the goroutines that run the pipeline in a build
Pollers(b) == IF b = "start" THEN {"ticker"} ELSE Jobs

\* the embeds of the two pollers, with the counts their descriptions carry
ErrorEmbed == [kind |-> "error", total |-> 0, new |-> 0]
ReportEmbed(total, new) == [kind |-> "report", total |-> total, new |-> new]
NewEmbed(total, new) == [kind |-> "new", total |-> total, new |-> new]

\* variant: the tick goes on to reconcile whatever the fetch returned
SkipReconcileNever(err) == FALSE

\* "if err != nil" after c.FetchTagReads(): Start sends the error embed and
\* continues with the next tick, executeZapCheck returns the error embed
SkipReconcile(err) == err # "none"

\* variant: Start with the "no new records, no notification" rule
StartEmbedsSuppressing(total, new) ==
  IF new = 0 THEN <<>> ELSE <<ReportEmbed(total, new)>>

\* Start after storeNewTagReads: one report embed, whatever the counts
StartEmbeds(total, new) == <<ReportEmbed(total, new)>>

\* variant: executeZapCheck without its "len(newRecords) == 0" return
ZapCheckEmbedsAlways(total, new) == <<NewEmbed(total, new)>>

\* executeZapCheck after storeNewTagReads: nil when no record is new, else
\* the embed "New Dero ZAPs Detected"
ZapCheckEmbeds(total, new) ==
  IF new = 0 THEN <<>> ELSE <<NewEmbed(total, new)>>

\* variant: the goroutine of the poller ends on a failed tick
StopOnFailure(failed) == IF failed THEN "stopped" ELSE "idle"

\* after a tick, failed or not: Start's loop waits for the next tick, the
\* cron entry stays registered for the next firing
AfterTick(failed) == "idle"

\* what a finished tick failed on
FailureOf(p) ==
  IF loginOut[p].err # "none" THEN "login"
  ELSE IF ret[p].err # "none" THEN "fetch"
  ELSE IF call[p] = "storeNewTagReads" /\ runErr THEN "storage"
  ELSE "none"

\* a tick begins: "for range ticker.C" delivers, or the cron entry fires;
\* the pipeline starts with c.FetchTagReads()
PollTick(p) ==
  /\ p \in Pollers(build)
  /\ clock + Cardinality({q \in Pollers(build) : pc[q] # "idle"}) < MaxRuns
  /\ FetchEnter(p)
  /\ tickStorage' = [tickStorage EXCEPT ![p] = storage]
  /\ UNCHANGED <<storeVars, build, embeds, lastFail, newRecords, req, listed, race>>

\* the tick after c.FetchTagReads(): the error embed, or (executeZapCheck
\* only) the return on an empty report, or the call of storeNewTagReads
PollAfterFetch(p) ==
  /\ p \in Pollers(build)
  /\ pc[p] = "done"
  /\ IF SkipReconcile(ret[p].err)
     THEN /\ embeds' = [embeds EXCEPT ![p] = Append(@, ErrorEmbed)]
          /\ pc' = [pc EXCEPT ![p] = "tickdone"]
          /\ UNCHANGED <<storeVars, call>>
     ELSE IF build = "cron" /\ Len(ret[p].reads) = 0
     THEN /\ pc' = [pc EXCEPT ![p] = "tickdone"]
          /\ UNCHANGED <<storeVars, call, embeds>>
     ELSE /\ \A q \in Threads : pc[q] # "store"
          /\ StoreEnter(ret[p].reads)
          /\ pc' = [pc EXCEPT ![p] = "store"]
          /\ call' = [call EXCEPT ![p] = "storeNewTagReads"]
          /\ UNCHANGED embeds
  /\ UNCHANGED <<loggedIn, site, currentPage, totalPages, allTagReads, ret,
                 loginOut, requests>>
  /\ UNCHANGED <<build, tickStorage, lastFail, newRecords, req, listed, race>>

\* the tick after storeNewTagReads has returned: the embed of the mode
PollNotify(p) ==
  /\ p \in Pollers(build)
  /\ pc[p] = "store"
  /\ spc = "done"
  /\ newRecords' = [newRecords EXCEPT ![p] = newRecordsCount]
  /\ listed' = [listed EXCEPT ![p] =
                  IF build = "start" THEN StartDetails(ret[p].reads)
                  ELSE ZapCheckDetails(newlyInserted)]
  /\ embeds' = [embeds EXCEPT ![p] =
                  @ \o (IF build = "start"
                        THEN StartEmbeds(Len(ret[p].reads), newRecordsCount)
                        ELSE ZapCheckEmbeds(Len(ret[p].reads), newRecordsCount))]
  /\ pc' = [pc EXCEPT ![p] = "tickdone"]
  /\ UNCHANGED <<loggedIn, site, call, currentPage, totalPages, allTagReads, ret,
                 loginOut, requests>>
  /\ UNCHANGED <<storeVars, build, tickStorage, lastFail, req, race>>

\* the tick is over: its locals are gone, the poller waits for the next one
PollEnd(p) ==
  /\ p \in Pollers(build)
  /\ pc[p] = "tickdone"
  /\ lastFail' = FailureOf(p)
  /\ pc' = [pc EXCEPT ![p] = AfterTick(FailureOf(p) # "none")]
  /\ call' = [call EXCEPT ![p] = "none"]
  /\ currentPage' = [currentPage EXCEPT ![p] = 1]
  /\ totalPages' = [totalPages EXCEPT ![p] = 1]
  /\ allTagReads' = [allTagReads EXCEPT ![p] = <<>>]
  /\ ret' = [ret EXCEPT ![p] = NoRet]
  /\ loginOut' = [loginOut EXCEPT ![p] = NoLogin]
  /\ requests' = [requests EXCEPT ![p] = <<>>]
  /\ embeds' = [embeds EXCEPT ![p] = <<>>]
  /\ newRecords' = [newRecords EXCEPT ![p] = 0]
  /\ listed' = [listed EXCEPT ![p] = NoDetails]
  /\ UNCHANGED <<loggedIn, site>>
  /\ UNCHANGED <<storeVars, build, tickStorage, req, race>>

\* ------------------------------------------------------- specifications
\* a site for the specifications in which no report is fetched
QuietSite == [n \in 1..MaxPages |-> [tables |-> <<TabEmpty>>, pager |-> NoPager]]

\* the program after NewClient, against any report of the upstream
Init == StoreInit /\ ClientInit /\ PollInit /\ build = "start" /\ site \in Sites

\* the program after NewClient, against an upstream with an empty report
QuietInit == StoreInit /\ ClientInit /\ PollInit /\ build = "start" /\ site = QuietSite

FetchNext ==
  \E p \in Procs :
    \/ FetchBegin(p)
    \/ CommandCall(p)
    \/ LoginEntry(p)
    \/ LoginRespond(p, FetchResponses)
    \/ FetchAfterLogin(p)
    \/ FetchPage(p)
    \/ FetchReturn(p)
    \/ Finish(p)

Next == FetchNext

\* the ticker goroutine and the command handler fetching through one Client
Spec == Init /\ [][Next]_vars

LoginNext ==
  \E p \in Procs :
    \/ LoginCall(p)
    \/ LoginEntry(p)
    \/ LoginRespond(p, Responses)
    \/ LoginDone(p)
    \/ Finish(p)

\* callers of Login against every outcome of the POST
SpecLogin == QuietInit /\ [][LoginNext]_vars

StoreNext == StoreBegin \/ StoreStep \/ StoreReturn

\* the reconciliation of the single poller: one call after the other
SpecStore == QuietInit /\ [][StoreNext]_vars

\* the reports the pollers are run against: any first page, and the same
\* two-row page behind it
PollSites ==
  {s \in Sites : \A n \in 2..MaxPages : s[n] = [tables |-> <<TabBA>>, pager |-> <<PagerOf(2)>>]}

PollSpecInit ==
  StoreInit /\ ClientInit /\ PollInit /\ build \in Builds /\ site \in PollSites

\* ---- a tick on a long report, from the return of FetchTagReads on
MaxRows == 6

LongTags == <<"A", "B", "C", "D">>

\* row i of a long report: a key of its own
SummaryRow(i) ==
  <<Td(<<IF i % 2 = 1 THEN "03/14/2025" ELSE "03/15/2025">>), Td(<<LongTags[(i + 1) \div 2]>>)>>

SummaryTable(n) ==
  [class |-> <<"reportTable">>, rows |-> <<RowHead>> \o [i \in 1..n |-> SummaryRow(i)]]

\* reports of one page with 0..MaxRows rows
SummarySites ==
  {[k \in 1..MaxPages |-> [tables |-> <<SummaryTable(n)>>, pager |-> NoPager]] : n \in 0..MaxRows}

\* the table after earlier ticks stored every second read of the report
StoredBefore(reads) ==
  SetToBag({[zap_date |-> FormatDate(parseZapDate(reads[i].Date).t),
             tag_id |-> reads[i].TagID, recorded_at |-> 0] :
            i \in {k \in 1..Len(reads) : k % 2 = 0}})

SummaryPoller(b) == IF b = "start" THEN "ticker" ELSE "job1"

\* the poller of the build has its reads from c.FetchTagReads(), on a
\* session that was authenticated before; nothing else runs
SummaryInit ==
  /\ build \in Builds
  /\ site \in SummarySites
  /\ loggedIn = TRUE
  /\ LET p == SummaryPoller(build)
         reads == parseTagReads(site[1]).reads
     IN /\ storage \in {EmptyBag, StoredBefore(reads)}
        /\ tickStorage = [q \in Threads |-> IF q = p THEN storage ELSE EmptyBag]
        /\ pc = [q \in Threads |-> IF q = p THEN "done" ELSE "idle"]
        /\ call = [q \in Threads |-> IF q = p THEN "FetchTagReads" ELSE "none"]
        /\ currentPage = [q \in Threads |-> IF q = p THEN 2 ELSE 1]
        /\ totalPages = [q \in Threads |-> 1]
        /\ allTagReads = [q \in Threads |-> IF q = p THEN reads ELSE <<>>]
        /\ ret = [q \in Threads |-> IF q = p THEN [reads |-> reads, err |-> "none"] ELSE NoRet]
        /\ requests = [q \in Threads |->
                         IF q = p THEN <<GET(pageURL(buildReportURL(defaultReportParams), 1))>>
                         ELSE <<>>]
  /\ loginOut = [q \in Threads |-> NoLogin]
  /\ clock = 0
  /\ spc = "idle"
  /\ batch = <<>>
  /\ idx = 0
  /\ now = 0
  /\ newRecordsCount = 0
  /\ storage0 = EmptyBag
  /\ runErr = FALSE
  /\ prevErr = FALSE
  /\ repeat = FALSE
  /\ seen = {}
  /\ seenOk = {}
  /\ lastStep = NoStep
  /\ storeErr = "none"
  /\ newlyInserted = <<>>
  /\ embeds = [q \in Threads |-> <<>>]
  /\ lastFail = "none"
  /\ newRecords = [q \in Threads |-> 0]
  /\ req = [q \in Threads |-> NoRequest]
  /\ listed = [q \in Threads |-> NoDetails]
  /\ race = [r \in RaceRuns |-> NoRun]

SummaryNext ==
  \/ \E p \in Threads :
       \/ PollAfterFetch(p)
       \/ PollNotify(p)
       \/ PollEnd(p)
  \/ StoreStep
  \/ StoreReturn

SpecSummary == SummaryInit /\ [][SummaryNext]_vars

\* ---- one caller of FetchTagReads, its call running on to its return
Fetcher == "ticker"

FetchOneNext ==
  \/ FetchBegin(Fetcher)
  \/ LoginEntry(Fetcher)
  \/ LoginRespond(Fetcher, FetchResponses)
  \/ FetchAfterLogin(Fetcher)
  \/ FetchPage(Fetcher)
  \/ FetchReturn(Fetcher)
  \/ Finish(Fetcher)

\* a call that has begun goes on: the goroutine runs, and httpClient.Do
\* returns, with a response or with an error, within the Timeout of 30
\* seconds NewClient sets
FetchFairness ==
  /\ WF_vars(LoginEntry(Fetcher))
  /\ WF_vars(LoginRespond(Fetcher, FetchResponses))
  /\ WF_vars(FetchAfterLogin(Fetcher))
  /\ WF_vars(FetchPage(Fetcher))
  /\ WF_vars(FetchReturn(Fetcher))

SpecFetchFair == Init /\ [][FetchOneNext]_vars /\ FetchFairness

\* what a step of the two calls leaves alone
raceFrame ==
  <<spc, batch, idx, now, newRecordsCount, storage0, runErr, prevErr, repeat, seen,
    seenOk, lastStep, storeErr, newlyInserted, clientVars, build, embeds, tickStorage,
    lastFail, newRecords, req, listed>>

RaceNext ==
  /\ \E r \in RaceRuns :
       \/ ReconcileBegin(r)
       \/ ReconcileCheck(r)
       \/ ReconcileInsert(r)
  /\ UNCHANGED raceFrame

\* two goroutines of one Client, each calling storeNewTagReads once
SpecRace == QuietInit /\ [][RaceNext]_vars

PollNext ==
  \/ \E p \in Threads :
       \/ PollTick(p)
       \/ LoginEntry(p)
       \/ LoginRespond(p, FetchResponses)
       \/ FetchAfterLogin(p)
       \/ FetchPage(p)
       \/ FetchReturn(p)
       \/ PollAfterFetch(p)
       \/ PollNotify(p)
       \/ PollEnd(p)
  \/ StoreStep
  \/ StoreReturn

\* the pipeline fetch, reconcile, notify under its scheduler: the goroutine
\* of Start in one build, the firings of the cron entry in the other; the
\* reconcile loops of two firings are taken one after the other here
SpecPoll == PollSpecInit /\ [][PollNext]_vars

\* ------------------------------------------------ reconciliation claims
\* the calls whose loop has run to its end
StoreDone == spc = "done"

\* the (zap_date, tag_id) key a candidate is stored under
KeyOf(tr) == <<FormatDate(parseZapDate(tr.Date).t), tr.TagID>>

HasKey(table, key) ==
  \E r \in BagToSet(table) : r.zap_date = key[1] /\ r.tag_id = key[2]

\* C1: in every reachable state, whatever batches the poll cycles bring and
\* however they repeat or overlap, derozap_reads holds at most one row per
\* (zap_date, tag_id): no row is stored twice and no two rows share a key.
C1_OneRowPerKey ==
  /\ \A r \in BagToSet(storage) : CopiesIn(r, storage) = 1
  /\ \A r1, r2 \in BagToSet(storage) :
       (r1.zap_date = r2.zap_date /\ r1.tag_id = r2.tag_id) => r1 = r2

\* C1 witness: a call that got the batch of the call before has finished on a
\* table that already held rows, and it added no row to them
C1_Witness ==
  /\ StoreDone /\ repeat /\ Len(batch) > 0
  /\ storage0 # EmptyBag
  /\ storage = storage0

C4_Pre ==
  /\ StoreDone
  /\ ~runErr
  /\ \A i \in 1..Len(batch) : parseZapDate(batch[i].Date).ok
  /\ \A i, j \in 1..Len(batch) : KeyOf(batch[i]) = KeyOf(batch[j]) => i = j

\* the candidates of the batch whose key the table did not hold at the call
C4_Absent == {i \in 1..Len(batch) : ~HasKey(storage0, KeyOf(batch[i]))}

\* C4: for a batch of n candidates with distinct keys and parseable dates, of
\* which k keys were in the table before the call, the call reports n - k,
\* and after it the table is the table before plus exactly one row, stamped
\* with the time of the call, for each candidate whose key was absent.
C4_ReportsExactlyTheAbsent ==
  C4_Pre =>
    /\ newRecordsCount = Cardinality(C4_Absent)
    /\ newRecordsCount = Len(batch) - Cardinality((1..Len(batch)) \ C4_Absent)
    /\ \A i \in 1..Len(batch) : HasKey(storage, KeyOf(batch[i]))
    /\ storage = storage0 (+) SetToBag({[zap_date |-> KeyOf(batch[i])[1],
                                         tag_id |-> KeyOf(batch[i])[2],
                                         recorded_at |-> now] : i \in C4_Absent})

\* C4 witness: a batch of two distinct keys, one of them stored before
C4_Witness ==
  /\ C4_Pre
  /\ Len(batch) = 2
  /\ Cardinality(C4_Absent) = 1
  /\ newRecordsCount = 1

\* ------------------------------------------------- fetch and login claims
FetchDone(p) == pc[p] = "done" /\ call[p] = "FetchTagReads"

\* the reads of pages 1..n of the site, page after page
RECURSIVE PagesReads(_)
PagesReads(n) ==
  IF n = 0 THEN <<>> ELSE PagesReads(n - 1) \o parseTagReads(site[n]).reads

Gets(p) == SelectSeq(requests[p], LAMBDA r : r.m = "GET")

\* C5: FetchTagReads is all-or-nothing: when the login, or the request, the
\* body read or the parse of any page fails, the call returns the error and
\* no records, whatever earlier pages had yielded.
C5_AllOrNothing ==
  \A p \in Procs : (FetchDone(p) /\ ret[p].err # "none") => ret[p].reads = <<>>

\* C5 witness: a call failed on a page after the first, with records of the
\* earlier pages already accumulated
C5_Witness ==
  \E p \in Procs :
    /\ FetchDone(p)
    /\ ret[p].err \in {"transport", "read", "notable"}
    /\ currentPage[p] >= 2
    /\ allTagReads[p] # <<>>
    /\ ret[p].reads = <<>>

\* C6: when the first page declares N pages and every page is fetched and
\* parsed, FetchTagReads returns the records of pages 1..N concatenated in
\* page order, each page in document order, after exactly N page requests.
C6_AllPagesInOrder ==
  \A p \in Procs :
    (FetchDone(p) /\ ret[p].err = "none") =>
      /\ ret[p].reads = PagesReads(extractTotalPages(site[1]))
      /\ Len(Gets(p)) = extractTotalPages(site[1])

\* C6 witness: a call returned the records of MaxPages pages, the first two
\* of which list their rows in different orders
C6_Witness ==
  \E p \in Procs :
    /\ FetchDone(p) /\ ret[p].err = "none"
    /\ extractTotalPages(site[1]) = MaxPages
    /\ Len(parseTagReads(site[1]).reads) = 2
    /\ Len(parseTagReads(site[2]).reads) = 2
    /\ parseTagReads(site[1]).reads # parseTagReads(site[2]).reads
    /\ Len(ret[p].reads) >= 4

\* C7: login attempts on the one Client are serialized: at most one login
\* POST is in flight at any time.
C7_OneLoginInFlight ==
  Cardinality({p \in Procs : pc[p] = "post"}) <= 1

\* C8: when the client is already authenticated, Login returns nil without
\* issuing a request and without touching the session.
C8_LoginIdempotent ==
  \A p \in Procs :
    (pc[p] = "loginret" /\ loginOut[p].short) =>
      /\ loginOut[p].err = "none"
      /\ requests[p] = <<>>
      /\ ~loginOut[p].set
      /\ loggedIn

\* C8 witness: a Login that found the client authenticated has returned
C8_Witness ==
  \E p \in Procs : pc[p] = "loginret" /\ call[p] = "Login" /\ loginOut[p].short

GotResponse(p) ==
  pc[p] = "loginret" /\ ~loginOut[p].short /\ loginOut[p].resp.kind = "resp"

HasFailureMarker(r) == "Login failed" \in r.body \/ "Invalid login" \in r.body

\* C9: a login response whose body has the welcome marker is a success and
\* marks the session authenticated, whatever its failure markers, status and
\* final URL.
C9_WelcomeWins ==
  \A p \in Procs :
    (GotResponse(p) /\ "Welcome," \in loginOut[p].resp.body) =>
      /\ loginOut[p].err = "none"
      /\ loginOut[p].set
      /\ loggedIn

\* C9 witness: a response with the welcome marker, a failure marker, a
\* status other than 200 and the login page as final URL was taken as success
C9_Witness ==
  \E p \in Procs :
    /\ GotResponse(p)
    /\ {"Welcome,", "Login failed"} \subseteq loginOut[p].resp.body
    /\ loginOut[p].resp.status # StatusOK
    /\ loginOut[p].resp.url = {"s=login"}
    /\ loginOut[p].err = "none"

\* C10 as stated: without the welcome marker, a failure marker gives the
\* invalid-credentials error; otherwise status 200 with a final URL that is
\* not the login page gives success; otherwise the result is the
\* indeterminate error; the session is marked only on success.
C10_PriorityAsStated ==
  \A p \in Procs :
    (GotResponse(p) /\ "Welcome," \notin loginOut[p].resp.body) =>
      LET r == loginOut[p].resp
          out == loginOut[p]
      IN /\ HasFailureMarker(r) => out.err = "invalid"
         /\ (~HasFailureMarker(r) /\ r.status = StatusOK /\ "s=login" \notin r.url)
              => out.err = "none"
         /\ (~HasFailureMarker(r) /\ ~(r.status = StatusOK /\ "s=login" \notin r.url))
              => out.err = "uncertain"
         /\ out.set <=> out.err = "none"

\* C10 amended: without the welcome marker, a failure marker gives the
\* invalid-credentials error; otherwise status 200 with a final URL that
\* contains "s=commuter" or does not contain "s=login" gives success;
\* otherwise the result is the indeterminate error; the session is marked
\* authenticated on success only, never on an error, a failed request or a
\* failed body read included.
C10_Priority ==
  \A p \in Procs :
    /\ (GotResponse(p) /\ "Welcome," \notin loginOut[p].resp.body) =>
         LET r == loginOut[p].resp
             out == loginOut[p]
             loggedInArea == "s=commuter" \in r.url \/ "s=login" \notin r.url
         IN /\ HasFailureMarker(r) => out.err = "invalid"
            /\ (~HasFailureMarker(r) /\ r.status = StatusOK /\ loggedInArea)
                 => out.err = "none"
            /\ (~HasFailureMarker(r) /\ ~(r.status = StatusOK /\ loggedInArea))
                 => out.err = "uncertain"
    /\ pc[p] = "loginret" => (loginOut[p].set <=> (loginOut[p].err = "none" /\ ~loginOut[p].short))
    /\ (pc[p] = "loginret" /\ loginOut[p].set) => loggedIn

\* C10 witness: a response with a failure marker, status 200 and a final URL
\* in the logged-in area was refused as invalid credentials
C10_Witness ==
  \E p \in Procs :
    /\ GotResponse(p)
    /\ loginOut[p].resp.body = {"Invalid login"}
    /\ loginOut[p].resp.status = StatusOK
    /\ loginOut[p].resp.url = {"s=commuter"}
    /\ loginOut[p].err = "invalid"
    /\ ~loginOut[p].set

\* -------------------------------------------- authentication before fetch
\* the call of FetchTagReads by p has come to its page loop or past it
InPages(p) == call[p] = "FetchTagReads" /\ pc[p] \in {"page", "done"}

\* C11: FetchTagReads ensures authentication before the first report
\* request: a call reaches its page loop, and so issues a report request,
\* only on an authenticated client; a call that found the client
\* unauthenticated has run Login before any report request; and when that
\* Login fails the call returns the very error of Login, with no records and
\* without a single report request.
C11_LoginBeforeFetch ==
  \A p \in Procs :
    /\ (call[p] = "FetchTagReads" /\ pc[p] = "page") => loggedIn
    /\ (call[p] = "FetchTagReads" /\ Gets(p) # <<>>) =>
         /\ loggedIn
         /\ \A i \in 1..Len(requests[p]) :
              requests[p][i] = POST => i = 1
    /\ (InPages(p) /\ loginOut[p].err # "none") =>
         /\ pc[p] = "done"
         /\ ret[p].err = loginOut[p].err
         /\ ret[p].reads = <<>>
         /\ Gets(p) = <<>>
         /\ requests[p] = <<POST>>

\* C11 witness: a call on an unauthenticated client whose login was refused
\* has returned the error of the login and sent the POST alone
C11_Witness ==
  \E p \in Procs :
    /\ FetchDone(p)
    /\ ~loggedIn
    /\ loginOut[p].err = "invalid"
    /\ ret[p].err = "invalid"
    /\ requests[p] = <<POST>>

\* ------------------------------------------------------ extraction claims
\* no table of the document has a class with the reportTable marker
NoReportTable(doc) ==
  \A i \in 1..Len(doc.tables) : ~HasReportMarker(doc.tables[i].class)

\* C12: a document with no table whose class contains the reportTable
\* marker makes parseTagReads return the error and no reads, never an empty
\* success, and FetchTagReads propagates it: no call gets past such a page,
\* none returns successfully over one, and a call that returns the error
\* returns no records.
C12_NoTableIsError ==
  /\ \A doc \in PageBodies :
       NoReportTable(doc) <=>
         (parseTagReads(doc).err = "notable" /\ parseTagReads(doc).reads = <<>>)
  /\ \A p \in Procs :
       /\ InPages(p) =>
            \A n \in 1..(currentPage[p] - 1) : ~NoReportTable(site[n])
       /\ (FetchDone(p) /\ ret[p].err = "none") =>
            \A n \in 1..Len(Gets(p)) : ~NoReportTable(site[n])
       /\ (FetchDone(p) /\ ret[p].err = "notable") =>
            /\ NoReportTable(site[currentPage[p]])
            /\ ret[p].reads = <<>>

\* C12 witness: a call whose first page had records returned the error for
\* a second page that has a table with rows but none with the marker
C12_Witness ==
  \E p \in Procs :
    /\ FetchDone(p)
    /\ ret[p].err = "notable"
    /\ currentPage[p] = 2
    /\ allTagReads[p] # <<>>
    /\ NoReportTable(site[2]) /\ Len(site[2].tables) > 0

\* the td cells of a row, and the rows of the report table of a page
RowCells(row) == SelectSeq(row, IsTd)
ReportRows(doc) == IF findTable(doc) = 0 THEN <<>> ELSE doc.tables[findTable(doc)].rows

\* a row the row rule drops: fewer than two cells, or a first or second
\* cell whose text is empty after trimming
Dropped(row) ==
  \/ Len(RowCells(row)) < 2
  \/ FirstText(RowCells(row)[1]) = <<>>
  \/ FirstText(RowCells(row)[2]) = <<>>

NonEmptyKey(tr) == tr.Date # <<>> /\ tr.TagID # <<>>

\* C13: every TagRead extraction returns, and so every record a poller
\* passes to reconciliation, has a non-empty Date and a non-empty TagID: a
\* row with fewer than two cells, or whose first or second cell text is
\* empty after trimming, yields no record and raises no error.
C13_NonEmptyDateAndTag ==
  /\ \A n \in 1..MaxPages :
       /\ \A i \in 1..Len(parseTagReads(site[n]).reads) :
            NonEmptyKey(parseTagReads(site[n]).reads[i])
       /\ \A i \in 1..Len(ReportRows(site[n])) :
            Dropped(ReportRows(site[n])[i]) => RowReads(ReportRows(site[n])[i]) = <<>>
       /\ findTable(site[n]) # 0 => parseTagReads(site[n]).err = "none"
  /\ \A p \in Threads :
       /\ \A i \in 1..Len(allTagReads[p]) : NonEmptyKey(allTagReads[p][i])
       /\ \A i \in 1..Len(ret[p].reads) : NonEmptyKey(ret[p].reads[i])
  /\ \A i \in 1..Len(batch) : NonEmptyKey(batch[i])

\* C13 witness: a poller reconciles the one record of a page whose table
\* has a row with a blank date, a row with a tag cell without text and a
\* row of one cell
C13_Witness ==
  \E p \in Threads :
    /\ pc[p] = "store"
    /\ Len(batch) = 1
    /\ Len(Gets(p)) = 1
    /\ Cardinality({i \in 1..Len(ReportRows(site[1])) : Dropped(ReportRows(site[1])[i])}) = 3
    /\ \E i \in 1..Len(ReportRows(site[1])) :
         LET cells == RowCells(ReportRows(site[1])[i])
         IN Len(cells) >= 2 /\ FirstText(cells[1]) = <<>>

\* t is s without its leading and trailing white space
IsTrimOf(t, s) ==
  /\ t # <<>> => (~IsSpace(t[1]) /\ ~IsSpace(t[Len(t)]))
  /\ \E i \in 1..(Len(s) + 1) : \E j \in 0..Len(s) :
       /\ t = SubSeq(s, i, j)
       /\ \A k \in 1..Len(s) : (k < i \/ k > j) => IsSpace(s[k])

\* t is the trimmed text of the cell: of its first text node, the empty
\* string when it has none
IsTextOf(t, cell) ==
  IF \E i \in 1..Len(cell.nodes) : cell.nodes[i].type = "text"
  THEN \E i \in 1..Len(cell.nodes) :
         /\ cell.nodes[i].type = "text"
         /\ \A j \in 1..(i - 1) : cell.nodes[j].type # "text"
         /\ IsTrimOf(t, cell.nodes[i].data)
  ELSE t = <<>>

\* C14: every row of the report table with k >= 2 cells that the row rule
\* keeps yields exactly one record: its Date is the trimmed text of the first
\* cell, its TagID the trimmed text of the second, and every further cell is
\* in RawData under the key of its position, "field_2" to "field_(k-1)", so
\* that the record has exactly k - 2 extra entries; and what a call has
\* accumulated is these records, page after page.
C14_RowRule ==
  /\ \A n \in 1..MaxPages : \A i \in 1..Len(ReportRows(site[n])) :
       LET row == ReportRows(site[n])[i]
           cells == RowCells(row)
           k == Len(cells)
       IN (k >= 2 /\ ~Dropped(row)) =>
            /\ Len(RowReads(row)) = 1
            /\ IsTextOf(RowReads(row)[1].Date, cells[1])
            /\ IsTextOf(RowReads(row)[1].TagID, cells[2])
            /\ DOMAIN RowReads(row)[1].RawData = {<<"field_", c>> : c \in 2..(k - 1)}
            /\ Cardinality(DOMAIN RowReads(row)[1].RawData) = k - 2
            /\ \A c \in 2..(k - 1) :
                 IsTextOf(RowReads(row)[1].RawData[<<"field_", c>>], cells[c + 1])
  /\ \A p \in Procs : InPages(p) => allTagReads[p] = PagesReads(currentPage[p] - 1)

\* C14 witness: a call returned a record of a row of five cells, with three
\* extra entries, one of them empty, and with a tag trimmed of its space
C14_Witness ==
  \E p \in Procs :
    /\ FetchDone(p) /\ ret[p].err = "none"
    /\ \E i \in 1..Len(ret[p].reads) :
         /\ Cardinality(DOMAIN ret[p].reads[i].RawData) = 3
         /\ ret[p].reads[i].RawData[<<"field_", 3>>] = <<>>
         /\ ret[p].reads[i].RawData[<<"field_", 4>>] = <<"in">>
         /\ ret[p].reads[i].TagID = <<"B">>

\* ----------------------------------------------------------- poller claims
\* the tick of poller p is over, its embeds handed over
TickDone(p) == p \in Pollers(build) /\ pc[p] = "tickdone"

\* the tick of p has called storeNewTagReads
Reconciled(p) == call[p] = "storeNewTagReads"

C15_State ==
  \A p \in Threads :
    /\ pc[p] = "store" => ret[p].err = "none"
    /\ (TickDone(p) /\ ret[p].err # "none") =>
         /\ embeds[p] = <<ErrorEmbed>>
         /\ ~Reconciled(p)
         /\ build = "start" => storage = tickStorage[p]

C15_Step ==
  storage' # storage =>
    \E p \in Pollers(build) : pc[p] = "store" /\ Reconciled(p) /\ ret[p].err = "none"

C16_AlwaysOneNotification ==
  \A p \in Pollers(build) :
    build = "start" =>
      /\ pc[p] # "tickdone" => embeds[p] = <<>>
      /\ pc[p] = "tickdone" =>
           /\ Len(embeds[p]) = 1
           /\ ret[p].err # "none" => embeds[p] = <<ErrorEmbed>>
           /\ ret[p].err = "none" =>
                /\ Reconciled(p)
                /\ embeds[p] = <<[kind |-> "report", total |-> Len(ret[p].reads),
                                   new |-> newRecords[p]]>>

\* C16 witness: a tick of Start that fetched reads, none of them new, has
\* sent its report
C16_Witness ==
  /\ build = "start"
  /\ TickDone("ticker")
  /\ ret["ticker"].err = "none"
  /\ Len(ret["ticker"].reads) > 0
  /\ newRecords["ticker"] = 0
  /\ \A i \in 1..Len(ret["ticker"].reads) :
       HasKey(tickStorage["ticker"], KeyOf(ret["ticker"].reads[i]))
  /\ storage = tickStorage["ticker"]
  /\ Len(embeds["ticker"]) = 1 /\ embeds["ticker"][1].kind = "report"

\* C17: under the schedule manager a tick whose fetch succeeds and that
\* inserts no record emits nothing, be the report empty or all of its reads
\* stored before; a tick emits at most one embed: the error embed when the
\* fetch failed, the embed of the new records when at least one was inserted.
C17_SuppressWhenNothingNew ==
  \A p \in Pollers(build) :
    build = "cron" =>
      /\ pc[p] # "tickdone" => embeds[p] = <<>>
      /\ pc[p] = "tickdone" =>
           /\ (ret[p].err = "none" /\ (~Reconciled(p) \/ newRecords[p] = 0))
                => embeds[p] = <<>>
           /\ ret[p].err # "none" => embeds[p] = <<ErrorEmbed>>
           /\ (ret[p].err = "none" /\ Reconciled(p) /\ newRecords[p] > 0) =>
                embeds[p] = <<[kind |-> "new", total |-> Len(ret[p].reads),
                               new |-> newRecords[p]]>>
           /\ ~Reconciled(p) => (ret[p].err # "none" \/ ret[p].reads = <<>>)

\* C17 witness: a firing fetched reads that were all stored before,
\* reconciled them and returned no embed
C17_Witness ==
  \E p \in Jobs :
    /\ build = "cron"
    /\ TickDone(p)
    /\ ret[p].err = "none"
    /\ Reconciled(p)
    /\ Len(ret[p].reads) > 0
    /\ \A i \in 1..Len(ret[p].reads) : HasKey(tickStorage[p], KeyOf(ret[p].reads[i]))
    /\ newRecords[p] = 0
    /\ embeds[p] = <<>>

\* C18: polls are never concurrent with each other: at no time are two
\* executions of the pipeline of the poller in progress.
C18_OnePipelineAtATime ==
  Cardinality({p \in Pollers(build) : pc[p] # "idle"}) <= 1

\* the positions of a poller inside a tick
InTick == {"login", "post", "loginret", "page", "done", "store", "tickdone"}

\* C19: no failure of a tick stops the poller: whenever a poller is not
\* inside a tick the next tick can begin (within the bound on the ticks of a
\* behaviour), whatever the last tick failed on; a tick sends its report
\* requests on an authenticated client only, after a login of its own when
\* it found the client unauthenticated; and under Start, with no other
\* caller on the Client, the tick after a failed login starts with a login
\* attempt.
C19_NextTickRetries ==
  \A p \in Pollers(build) :
    /\ (pc[p] \notin InTick
        /\ clock + Cardinality({q \in Pollers(build) : pc[q] # "idle"}) < MaxRuns)
         => ENABLED PollTick(p)
    /\ pc[p] \in {"page", "store"} => loggedIn
    /\ (pc[p] \in InTick \ {"login"} /\ ~loginOut[p].short /\ pc[p] # "page"
        /\ ~loggedIn) => (requests[p] # <<>> /\ requests[p][1] = POST)
    /\ (build = "start" /\ lastFail = "login") =>
         /\ pc[p] \in {"idle", "login", "post"} => ~loggedIn
         /\ pc[p] \in InTick \ {"login"} => (requests[p] # <<>> /\ requests[p][1] = POST)

\* C19 witness: the tick after a tick that failed on its login has logged
\* in, fetched, and stored new rows
C19_Witness ==
  \E p \in Threads :
    /\ TickDone(p)
    /\ lastFail = "login"
    /\ ret[p].err = "none"
    /\ requests[p][1] = POST
    /\ Reconciled(p)
    /\ newRecords[p] > 0
    /\ embeds[p] # <<>>

\* ---------------------------------------------------------- command claims
\* exactly one of start and end is supplied
OneOfTwo(r) == (r.Start = <<>>) # (r.End = <<>>)

\* C20: an on-demand request that supplies exactly one of start and end is
\* rejected with the usage error before any login or report request is made,
\* and the session is left as it was; a request that supplies both or neither
\* is never rejected with the usage error, and when its dates, if any, are
\* in the yyyy/mm/dd layout it goes on to FetchTagReads.
C20_OneOfTwoIsUsageError ==
  \A p \in Procs :
    /\ OneOfTwo(req[p]) =>
         /\ pc[p] = "done"
         /\ call[p] = "handleDerozapCommand"
         /\ ret[p].err = "usage"
         /\ ret[p].reads = <<>>
         /\ requests[p] = <<>>
         /\ loginOut[p] = NoLogin
    /\ (call[p] = "handleDerozapCommand" /\ ret[p].err = "usage") => OneOfTwo(req[p])
    /\ (call[p] = "FetchTagReads" \/ requests[p] # <<>>) => ~OneOfTwo(req[p])
    /\ (req[p] # NoRequest /\ ~OneOfTwo(req[p])
        /\ SlashDay(req[p].Start[1]) # 0 /\ SlashDay(req[p].End[1]) # 0)
         => call[p] = "FetchTagReads"

\* C20 witness: a command with an end date and no start date has been
\* rejected on a Client that is not logged in, without a request
C20_Witness ==
  /\ pc["command"] = "done"
  /\ req["command"].Start = <<>>
  /\ req["command"].End = <<"2025/03/14">>
  /\ ret["command"].err = "usage"
  /\ requests["command"] = <<>>
  /\ ~loggedIn

\* --------------------------------------------- more reconciliation claims
\* the candidate the last iteration of the loop was about
LastCandidate == batch[idx]

C21_State ==
  /\ (spc \in {"loop", "done"} /\ idx > 0 /\ lastStep.failed) =>
       (~lastStep.changed /\ ~lastStep.counted)
  /\ (spc \in {"loop", "done"} /\ idx > 0 /\ ~parseZapDate(LastCandidate.Date).ok) =>
       (lastStep.failed /\ ~lastStep.changed /\ ~lastStep.counted)
  /\ StoreDone => (idx = Len(batch) /\ storeErr = "none")
  /\ spc = "loop" => storeErr = "none"

C21_Step ==
  (spc = "loop" /\ idx' = idx + 1) =>
    /\ spc' = "loop"
    /\ batch' = batch
    /\ (runErr' /\ ~runErr) => (storage' = storage /\ newRecordsCount' = newRecordsCount)
    /\ newRecordsCount' = newRecordsCount + (IF storage' # storage THEN 1 ELSE 0)

\* C21: per-record failures do not abort reconciliation: a candidate whose
\* date no layout accepts, or whose existence check or insert fails, changes
\* neither the table nor the count of new records; the loop goes on to the
\* next candidate after every iteration, so that a call that has returned has
\* processed every candidate of its batch; and the call returns no error.
C21_PerRecordFailuresSkipped == []C21_State /\ [][C21_Step]_vars

\* C21 witness: a call whose first candidate failed (a date no layout
\* accepts, or a storage error) has returned after inserting its second one
C21_Witness ==
  /\ StoreDone /\ Len(batch) = 2 /\ idx = 2
  /\ runErr
  /\ ~lastStep.failed /\ lastStep.changed
  /\ newRecordsCount = 1
  /\ BagCardinality(storage) = BagCardinality(storage0) + 1
  /\ storeErr = "none"

\* the rows the running call has added to the table
AddedRows == {r \in BagToSet(storage) : CopiesIn(r, storage) > CopiesIn(r, storage0)}

RowKey(r) == <<r.zap_date, r.tag_id>>

\* s is t with some elements left out, the others in t's order
RECURSIVE C22_IsSubSeq(_, _)
C22_IsSubSeq(s, t) ==
  IF s = <<>> THEN TRUE
  ELSE IF t = <<>> THEN FALSE
  ELSE IF Head(s) = Head(t) THEN C22_IsSubSeq(Tail(s), Tail(t))
  ELSE C22_IsSubSeq(s, Tail(t))

C22_State ==
  spc \in {"loop", "done"} =>
    /\ C22_IsSubSeq(newlyInserted, SubSeq(batch, 1, idx))
    /\ {KeyOf(newlyInserted[i]) : i \in 1..Len(newlyInserted)} = {RowKey(r) : r \in AddedRows}
    /\ Len(newlyInserted) = Cardinality(AddedRows)
    /\ Len(newlyInserted) = BagCardinality(storage) - BagCardinality(storage0)
    /\ Len(newlyInserted) = newRecordsCount

C22_Step ==
  (spc = "loop" /\ idx' = idx + 1) =>
    newlyInserted' = IF storage' # storage THEN Append(newlyInserted, batch[idx + 1])
                     ELSE newlyInserted

DeclaredPages(doc) ==
  IF Len(doc.pager) = 0 \/ doc.pager[1].kind # "digits" THEN 0 ELSE doc.pager[1].n

\* C23: the page count is the Y of the first "page X of Y" of the body of
\* the first page when that is a positive integer; when the indicator is
\* absent, does not parse or is not positive, the count is 1: exactly one
\* page is requested and the call returns the reads of that page without
\* error.
C23_PageCount ==
  \A p \in Procs :
    (InPages(p) /\ currentPage[p] > 1) =>
      /\ DeclaredPages(site[1]) > 0 => totalPages[p] = DeclaredPages(site[1])
      /\ DeclaredPages(site[1]) <= 0 =>
           /\ totalPages[p] = 1
           /\ Len(Gets(p)) = 1
           /\ FetchDone(p) =>
                (ret[p].err = "none" /\ ret[p].reads = parseTagReads(site[1]).reads)

\* C23 witness: a call has returned after one request from a report whose
\* first page declares "of 0" first and "of 2" later
C23_Witness ==
  \E p \in Procs :
    /\ FetchDone(p) /\ ret[p].err = "none"
    /\ Len(site[1].pager) = 2
    /\ site[1].pager[1] = PagerOf(0) /\ site[1].pager[2] = PagerOf(2)
    /\ Len(Gets(p)) = 1

\* the number of the last report request of p that was read and parsed
PagesParsed(p) ==
  IF pc[p] = "done" /\ ret[p].err # "none" /\ Gets(p) # <<>>
  THEN Len(Gets(p)) - 1 ELSE Len(Gets(p))

\* C24: the pages of a report are requested one at a time in ascending
\* order: the i-th report request of a call is the request for page i, the
\* first with the URL of the report and no page parameter, the i-th from the
\* second on with that URL and "&pg=i"; a request is sent only after every
\* earlier page has been read and parsed; no page beyond the count is
\* requested, and a call that succeeds has requested every page once.
C24_PagesInOrder ==
  \A p \in Procs :
    (call[p] = "FetchTagReads" /\ pc[p] # "idle") =>
      /\ \A i \in 1..Len(Gets(p)) :
           /\ Gets(p)[i].pg = i
           /\ i = 1 => \A k \in 1..Len(Gets(p)[1].url) : Gets(p)[1].url[k] # "&pg="
           /\ i >= 2 => Gets(p)[i].url = Gets(p)[1].url \o <<"&pg=", i>>
      /\ pc[p] \in {"login", "post", "loginret"} => Gets(p) = <<>>
      /\ pc[p] \in {"page", "done"} =>
           /\ (Gets(p) # <<>> \/ pc[p] = "page") => currentPage[p] = PagesParsed(p) + 1
           /\ allTagReads[p] = PagesReads(PagesParsed(p))
           /\ Len(Gets(p)) <= IF PagesParsed(p) >= 1 THEN extractTotalPages(site[1]) ELSE 1
           /\ (pc[p] = "done" /\ ret[p].err = "none") =>
                Len(Gets(p)) = extractTotalPages(site[1])

\* C24 witness: the command, run with a date range, has fetched a report of
\* two pages: two requests, the second with "&pg=2"
C24_Witness ==
  /\ FetchDone("command") /\ ret["command"].err = "none"
  /\ req["command"].Start # <<>>
  /\ Len(Gets("command")) = 2
  /\ Gets("command")[2].url = Gets("command")[1].url \o <<"&pg=", 2>>
  /\ Gets("command")[1].url # buildReportURL(defaultReportParams)

\* ------------------------------------------------------- rows are kept
C25_Step ==
  /\ \A r \in BagToSet(storage) : CopiesIn(r, storage') = CopiesIn(r, storage)
  /\ \A r \in BagToSet(storage') :
       CopiesIn(r, storage') > CopiesIn(r, storage) =>
         /\ spc = "loop" /\ idx' = idx + 1
         /\ r.recorded_at = now /\ now = clock
         /\ RowKey(r) = KeyOf(batch[idx + 1])
  /\ {RowKey(r) : r \in BagToSet(storage)} \subseteq {RowKey(r) : r \in BagToSet(storage')}

\* C25: the rows of derozap_reads are write-once: a step of the program
\* leaves every row of the table as it is, recorded_at included; a row is
\* added only by an iteration of storeNewTagReads, for the candidate of that
\* iteration and with recorded_at the time the call read when it began, so
\* that the set of stored keys only grows.
C25_WriteOnce == [][C25_Step]_vars

\* C25 witness: a later call of storeNewTagReads has added a row next to a
\* row of an earlier call, which still carries the time of the earlier call
C25_Witness ==
  /\ spc = "done" /\ now = 2
  /\ \E r1, r2 \in BagToSet(storage) :
       /\ r1.recorded_at = 1 /\ r2.recorded_at = 2
       /\ \E i \in 1..Len(batch) : KeyOf(batch[i]) = RowKey(r1)

\* ------------------------------------------------ the authenticated flag
\* p's Login comes from the answer to its POST to its return
LoginReturns(p) == pc[p] = "post" /\ pc'[p] = "loginret"

C26_Step ==
  /\ loggedIn => loggedIn'
  /\ (~loggedIn /\ loggedIn') =>
       \E p \in Procs : LoginReturns(p) /\ loginOut'[p].err = "none"
  /\ \A p \in Procs :
       (LoginReturns(p) /\ loginOut'[p].err # "none") => loggedIn' = loggedIn
  /\ \A p \in Procs :
       (pc[p] = "page" /\ pc'[p] = "done" /\ ret'[p].err # "none") => loggedIn' = loggedIn

\* C26: the authenticated flag is false after construction and changes only
\* from false to true, and only where a Login returns without error: a Login
\* that returns an error leaves it as it was, and so does every other step,
\* a FetchTagReads that fails on a report page included.
C26_FlagOnlySetByLogin == ~loggedIn /\ [][C26_Step]_vars

\* C26 witness: one caller's FetchTagReads has returned the error of a failed
\* Login; after it the other caller logged in and failed on a report page;
\* the flag is still set
C26_Witness ==
  \E p, q \in Procs :
    /\ FetchDone(p) /\ ret[p].err \in {"invalid", "uncertain"} /\ loginOut[p].short = FALSE
    /\ FetchDone(q) /\ ret[q].err \in {"transport", "read", "notable"} /\ Gets(q) # <<>>
    /\ loginOut[q].set
    /\ loggedIn

\* ------------------------------------------------- the success summary
\* the tick of p has built its success summary
TickReported(p) ==
  pc[p] = "tickdone" /\ call[p] = "storeNewTagReads" /\ embeds[p] # <<>>

\* the lines of the first records of a sequence, five at most
FirstFive(records) ==
  [i \in 1..(IF Len(records) < 5 THEN Len(records) ELSE 5) |-> DetailLine(records[i])]

C28_CountedOnce ==
  /\ race["run1"].keys \cap race["run2"].keys = {}
  /\ \A r \in RaceRuns : race[r].count = Cardinality(race[r].keys)
  /\ race["run1"].count + race["run2"].count = BagCardinality(storage)
  /\ \A r \in RaceRuns : \A k \in race[r].keys :
       \E row \in BagToSet(storage) : RowKey(row) = k /\ row.recorded_at = race[r].ts

\* C28 witness: both calls found a key absent and went on to insert it; one
\* inserted and counted it, the other was refused and did not count it
C28_Witness ==
  \E r1, r2 \in RaceRuns :
    /\ r1 # r2
    /\ race[r1].phase = "done" /\ race[r2].phase = "done"
    /\ race[r2].refused /\ race[r2].count = 0
    /\ race[r1].count = 1
    /\ \E i \in 1..Len(race[r2].batch) : KeyOf(race[r2].batch[i]) \in race[r1].keys
    /\ BagCardinality(storage) = 1

\* ------------------------------------------------ the normalised date
\* the calendar day the date string of a candidate parses to
CalendarDay(tr) == parseZapDate(tr.Date).t.day

\* two candidates of one tag whose dates parse to one calendar day
SameDayAndTag(a, b) ==
  /\ parseZapDate(a.Date).ok /\ parseZapDate(b.Date).ok
  /\ CalendarDay(a) = CalendarDay(b)
  /\ a.TagID = b.TagID

\* the rows of a table for the day and tag of a candidate
RowsOfDay(table, tr) ==
  {r \in BagToSet(table) : r.tag_id = tr.TagID /\ ISODay(r.zap_date[1]) = CalendarDay(tr)}

\* candidates i < j of the running call have been processed; they have one
\* tag and one calendar day in two different date strings, i is the first of
\* that day and tag in the batch, and the table held no row for them
C29_Pair(i, j) ==
  /\ spc \in {"loop", "done"}
  /\ i < j /\ j <= idx
  /\ SameDayAndTag(batch[i], batch[j])
  /\ batch[i].Date # batch[j].Date
  /\ \A k \in 1..(i - 1) : ~SameDayAndTag(batch[k], batch[i])
  /\ RowsOfDay(storage0, batch[i]) = {}

\* the first of the pair was inserted and nothing else of that day and tag
C29_OnlyFirst(i) ==
  /\ SelectSeq(newlyInserted, LAMBDA x : SameDayAndTag(x, batch[i])) = <<batch[i]>>
  /\ Cardinality(RowsOfDay(storage, batch[i])) = 1
  /\ \A r \in RowsOfDay(storage, batch[i]) : CopiesIn(r, storage) = 1

FetchRunning == call[Fetcher] = "FetchTagReads" /\ pc[Fetcher] \notin {"idle", "done"}

\* the page count page 1 declares: N
CountOfPageOne == IF DeclaredPages(site[1]) > 0 THEN DeclaredPages(site[1]) ELSE 1

C30_State ==
  call[Fetcher] = "FetchTagReads" =>
    /\ Len(Gets(Fetcher)) <= CountOfPageOne
    /\ currentPage[Fetcher] > 1 => totalPages[Fetcher] = CountOfPageOne

C30_Step ==
  (pc[Fetcher] = "page" /\ currentPage[Fetcher] > 1 /\ pc'[Fetcher] \in {"page", "done"}) =>
    totalPages'[Fetcher] = totalPages[Fetcher]

\* C30: FetchTagReads always terminates: the page count is fixed once from
\* the first page and no later page changes it, whatever that page declares;
\* a call issues at most N report requests, N the count page 1 declares; and
\* a call that is running comes to its return.
C30_Terminates ==
  /\ []C30_State
  /\ [][C30_Step]_vars
  /\ (FetchRunning ~> FetchDone(Fetcher))

\* C30 witness: a call has returned the reads of a report of two pages whose
\* second page declares another count than the first
C30_Witness ==
  /\ FetchDone(Fetcher) /\ ret[Fetcher].err = "none"
  /\ Len(Gets(Fetcher)) = 2 /\ CountOfPageOne = 2
  /\ extractTotalPages(site[2]) # extractTotalPages(site[1])

====
